---- MODULE Spec2Model ----
(***************************************************************************)
(* A model of win_tiling.py: the tiling state machine (move_command), the  *)
(* geometry model (Screen), the classifier (get_windowstate) and the       *)
(* command channel (EventListener.listen, consume, send).                  *)
(*                                                                         *)
(* Encoding of the Python values:                                          *)
(*   Direction   the strings "up", "down", "left", "right"                 *)
(*   windowstate a tuple of directions: <<>> is None, <<d>> is the         *)
(*               direction d, <<d1, d2>> is the corner (d1, d2)            *)
(*   Rect, XY, WH records                                                  *)
(***************************************************************************)
EXTENDS Integers, Sequences, FiniteSets, TLC

(***************************************************************************)
(* Bounds of the model.                                                    *)
(***************************************************************************)
\* largest width and height of a monitor
MaxDim == 4
\* number of client processes that may run `client <message>`
MaxClients == 3
\* number of commands in a row that SpecSeq follows
MaxPresses == 3
\* largest width and height of the window decorations
MaxInset == 3

(***************************************************************************)
(* Constants (lines 40-72).                                                *)
(***************************************************************************)
STOP_EVENT_HANDLER == "win_tiling_end"

AUTHKEY == "win_tiling"

UP == "up"
DOWN == "down"
LEFT == "left"
RIGHT == "right"

None == <<>>

opposites == (LEFT :> RIGHT) @@ (RIGHT :> LEFT) @@ (UP :> DOWN) @@ (DOWN :> UP)

\* Python's order on the four strings: "down" < "left" < "right" < "up"
StrRank == (DOWN :> 1) @@ (LEFT :> 2) @@ (RIGHT :> 3) @@ (UP :> 4)

\* a slip: the tuple built without sorting
corner_unsorted(dir1, dir2) == <<dir1, dir2>>

\* sorted((dir1, dir2)) as a tuple
corner(dir1, dir2) ==
    IF StrRank[dir1] <= StrRank[dir2] THEN <<dir1, dir2>> ELSE <<dir2, dir1>>

\* a slip: the two entries of one corner's map exchanged
cornerstates_exchanged ==
    (corner(LEFT, UP) :> ((DOWN :> UP) @@ (RIGHT :> LEFT))) @@
    (corner(RIGHT, UP) :> ((DOWN :> RIGHT) @@ (LEFT :> UP))) @@
    (corner(DOWN, LEFT) :> ((UP :> LEFT) @@ (RIGHT :> DOWN))) @@
    (corner(DOWN, RIGHT) :> ((UP :> RIGHT) @@ (LEFT :> DOWN)))

cornerstates ==
    (corner(LEFT, UP) :> ((DOWN :> LEFT) @@ (RIGHT :> UP))) @@
    (corner(RIGHT, UP) :> ((DOWN :> RIGHT) @@ (LEFT :> UP))) @@
    (corner(DOWN, LEFT) :> ((UP :> LEFT) @@ (RIGHT :> DOWN))) @@
    (corner(DOWN, RIGHT) :> ((UP :> RIGHT) @@ (LEFT :> DOWN)))

\* a slip: a missing key answered with an entry of the dict
DictGet_any_entry(dict, key, default) ==
    IF key \in DOMAIN dict THEN dict[key] ELSE dict[CHOOSE k \in DOMAIN dict : TRUE]

\* dict.get(key, default)
DictGet(dict, key, default) ==
    IF key \in DOMAIN dict THEN dict[key] ELSE default

WH(w, h) == [w |-> w, h |-> h]

XY(x, y) == [x |-> x, y |-> y]

Rect(x, y, width, height) == [x |-> x, y |-> y, width |-> width, height |-> height]

GeometryContainer(window, parent) == [window |-> window, parent |-> parent]

(***************************************************************************)
(* class Screen (lines 196-246).                                           *)
(***************************************************************************)
\* the iteration order of the dicts `anchors` and `corneranchors`
AnchorOrder == <<LEFT, RIGHT, UP, DOWN>>

CornerAnchorOrder ==
    <<corner(UP, LEFT), corner(UP, RIGHT), corner(DOWN, LEFT), corner(DOWN, RIGHT)>>

base_anchors(w, h) ==
    (LEFT :> <<0, 0>>) @@ (RIGHT :> <<w \div 2, 0>>) @@
    (UP :> <<0, 0>>) @@ (DOWN :> <<0, h \div 2>>)

\* a slip: the anchors of two corners exchanged
base_corneranchors_exchanged(w, h) ==
    (corner(UP, LEFT) :> <<0, 0>>) @@
    (corner(UP, RIGHT) :> <<0, h \div 2>>) @@
    (corner(DOWN, LEFT) :> <<w \div 2, 0>>) @@
    (corner(DOWN, RIGHT) :> <<w \div 2, h \div 2>>)

base_corneranchors(w, h) ==
    (corner(UP, LEFT) :> <<0, 0>>) @@
    (corner(UP, RIGHT) :> <<w \div 2, 0>>) @@
    (corner(DOWN, LEFT) :> <<0, h \div 2>>) @@
    (corner(DOWN, RIGHT) :> <<w \div 2, h \div 2>>)

\* {key: XY(x + x_anchor, y + y_anchor) for key, (x_anchor, y_anchor) in base.items()}
OffsetAnchors(base, x, y) ==
    [key \in DOMAIN base |-> XY(x + base[key][1], y + base[key][2])]

\* a slip: the halves sized along the wrong axis
sizes_wrong_axis(w, h) ==
    (LEFT :> WH(w, h \div 2)) @@ (RIGHT :> WH(w, h \div 2)) @@
    (UP :> WH(w \div 2, h)) @@ (DOWN :> WH(w \div 2, h))

sizes(w, h) ==
    (LEFT :> WH(w \div 2, h)) @@ (RIGHT :> WH(w \div 2, h)) @@
    (UP :> WH(w, h \div 2)) @@ (DOWN :> WH(w, h \div 2))

\* a slip: the quarters rounded up
cornersize_rounded_up(w, h) == WH((w + 1) \div 2, (h + 1) \div 2)

cornersize(w, h) == WH(w \div 2, h \div 2)

Screen(x, y, w, h) ==
    [x |-> x, y |-> y, w |-> w, h |-> h,
     anchors |-> OffsetAnchors(base_anchors(w, h), x, y),
     sizes |-> sizes(w, h),
     corneranchors |-> OffsetAnchors(base_corneranchors(w, h), x, y),
     cornersize |-> cornersize(w, h)]

\* a slip: the first tiling listed with the size of the whole screen
stateinfo_whole_screen(screen) ==
    [i \in 1..4 |-> <<<<AnchorOrder[i]>>,
                      screen.anchors[AnchorOrder[i]],
                      IF i = 1 THEN WH(screen.w, screen.h)
                      ELSE screen.sizes[AnchorOrder[i]]>>] \o
    [i \in 1..4 |-> <<CornerAnchorOrder[i],
                      screen.corneranchors[CornerAnchorOrder[i]],
                      screen.cornersize>>]

\* the sequence of (state, anchor, size) the generator yields
stateinfo(screen) ==
    [i \in 1..4 |-> <<<<AnchorOrder[i]>>,
                      screen.anchors[AnchorOrder[i]],
                      screen.sizes[AnchorOrder[i]]>>] \o
    [i \in 1..4 |-> <<CornerAnchorOrder[i],
                      screen.corneranchors[CornerAnchorOrder[i]],
                      screen.cornersize>>]

(***************************************************************************)
(* Monitors (lines 249-272).                                               *)
(***************************************************************************)
Min2(a, b) == IF a <= b THEN a ELSE b

Max2(a, b) == IF a >= b THEN a ELSE b

get_overlapping_area(r1, r2) ==
    Max2(Min2(r1.x + r1.width, r2.x + r2.width) - Max2(r1.x, r2.x), 0) *
    Max2(Min2(r1.y + r1.height, r2.y + r2.height) - Max2(r1.y, r2.y), 0)

\* max(items, key=...): the first item of the greatest key
FirstMax(keys) ==
    CHOOSE i \in DOMAIN keys :
        /\ \A j \in DOMAIN keys : keys[j] <= keys[i]
        /\ \A j \in DOMAIN keys : j < i => keys[j] < keys[i]

get_active_monitor(geometry, mons) ==
    mons[FirstMax([i \in DOMAIN mons |-> get_overlapping_area(geometry.parent, mons[i])])]

ScreenOf(monitor) == Screen(monitor.x, monitor.y, monitor.width, monitor.height)

get_screen(geometry, mons) == ScreenOf(get_active_monitor(geometry, mons))

(***************************************************************************)
(* Classification (lines 183-193).                                         *)
(***************************************************************************)
\* a slip: the loop compares the anchors and forgets the sizes
FirstMatch_anchor_only(info, win_anchor, win_size) ==
    IF \A i \in DOMAIN info : win_anchor # info[i][2]
    THEN None
    ELSE info[CHOOSE i \in DOMAIN info :
                /\ win_anchor = info[i][2]
                /\ \A j \in DOMAIN info : j < i => win_anchor # info[j][2]][1]

\* the loop of get_windowstate: the state of the first entry of `info` whose
\* (anchor, size) equals the window's, None when there is none
FirstMatch(info, win_anchor, win_size) ==
    IF \A i \in DOMAIN info : <<win_anchor, win_size>> # <<info[i][2], info[i][3]>>
    THEN None
    ELSE info[CHOOSE i \in DOMAIN info :
                /\ <<win_anchor, win_size>> = <<info[i][2], info[i][3]>>
                /\ \A j \in DOMAIN info :
                      j < i => <<win_anchor, win_size>> # <<info[j][2], info[j][3]>>][1]

\* a slip: the bare window rectangle classified, not its parent
get_windowstate_bare(geometry, mons) ==
    FirstMatch(stateinfo(get_screen(geometry, mons)),
               XY(geometry.parent.x + geometry.window.x, geometry.parent.y + geometry.window.y),
               WH(geometry.window.width, geometry.window.height))

get_windowstate(geometry, mons) ==
    FirstMatch(stateinfo(get_screen(geometry, mons)),
               XY(geometry.parent.x, geometry.parent.y),
               WH(geometry.parent.width, geometry.parent.height))

(***************************************************************************)
(* Moves (lines 112-180).  Each returns the record of the one _move call   *)
(* it makes: the function and its argument, the rectangle _move is given   *)
(* (target), the X requests in the order they are issued (ops) and the     *)
(* rectangle handed to setMoveResizeWindow (request).                      *)
(***************************************************************************)
get_decoration_dimensions(geometry) ==
    WH(geometry.parent.width - geometry.window.width,
       geometry.parent.height - geometry.window.height)

\* a slip: the size corrected for the decorations, the position not
MoveRequest_no_offset(x, y, w, h, decoration_dimensions) ==
    [x |-> x, y |-> y,
     w |-> w - decoration_dimensions.w,
     h |-> h - decoration_dimensions.h]

\* a slip: the border not taken off the title bar
MoveRequest_whole_height(x, y, w, h, decoration_dimensions) ==
    [x |-> x + decoration_dimensions.w \div 2,
     y |-> y + decoration_dimensions.h,
     w |-> w - decoration_dimensions.w,
     h |-> h - decoration_dimensions.h]

\* lines 150-155, given the decoration dimensions measured at line 149
MoveRequest(x, y, w, h, decoration_dimensions) ==
    [x |-> x + decoration_dimensions.w \div 2,
     y |-> y + decoration_dimensions.h - decoration_dimensions.w \div 2,
     w |-> w - decoration_dimensions.w,
     h |-> h - decoration_dimensions.h]

_move(x, y, w, h, geometry) ==
    [target |-> [x |-> x, y |-> y, w |-> w, h |-> h],
     ops |-> <<"unmaximize_horz", "unmaximize_vert", "get_decoration_dimensions",
               "setMoveResizeWindow", "flush">>,
     request |-> MoveRequest(x, y, w, h, get_decoration_dimensions(geometry))]

\* lines 117-119, given the screen of line 116
MoveOn(screen, direction, geometry) ==
    _move(screen.anchors[direction].x, screen.anchors[direction].y,
          screen.sizes[direction].w, screen.sizes[direction].h, geometry)

move(direction, geometry, mons) ==
    [fn |-> "move", arg |-> <<direction>>] @@
    MoveOn(get_screen(geometry, mons), direction, geometry)

\* a slip: the monitor's origin forgotten
MaximiseOn_origin(screen, geometry) ==
    _move(0, 0, screen.w, screen.h, geometry)

\* line 127, given the screen of line 126
MaximiseOn(screen, geometry) ==
    _move(screen.x, screen.y, screen.w, screen.h, geometry)

maximise(geometry, mons) ==
    [fn |-> "maximise", arg |-> <<>>] @@
    MaximiseOn(get_screen(geometry, mons), geometry)

\* lines 135-137, given the screen of line 134
CornermoveOn(screen, corner_direction, geometry) ==
    _move(screen.corneranchors[corner_direction].x,
          screen.corneranchors[corner_direction].y,
          screen.cornersize.w, screen.cornersize.h, geometry)

cornermove(corner_direction, geometry, mons) ==
    [fn |-> "cornermove", arg |-> corner_direction] @@
    CornermoveOn(get_screen(geometry, mons), corner_direction, geometry)

(***************************************************************************)
(* The transition engine (lines 90-109).  The value is the window state    *)
(* the command found and the sequence of _move calls it issued: empty when *)
(* it returns without moving.                                              *)
(***************************************************************************)
\* a slip: the window already tiled to the requested side is moved again
Transition_moves_again(windowstate, direction, geometry, mons) ==
    IF windowstate = None THEN <<move(direction, geometry, mons)>>
    ELSE IF windowstate = <<direction>> THEN <<move(direction, geometry, mons)>>
    ELSE IF windowstate = <<opposites[direction]>> THEN <<maximise(geometry, mons)>>
    ELSE IF windowstate \in DOMAIN cornerstates
    THEN <<move(DictGet(cornerstates[windowstate], direction, direction), geometry, mons)>>
    ELSE <<cornermove(corner(windowstate[1], direction), geometry, mons)>>

\* lines 94-109, given the windowstate of line 93
Transition(windowstate, direction, geometry, mons) ==
    IF windowstate = None THEN <<move(direction, geometry, mons)>>
    ELSE IF windowstate = <<direction>> THEN <<>>
    ELSE IF windowstate = <<opposites[direction]>> THEN <<maximise(geometry, mons)>>
    ELSE IF windowstate \in DOMAIN cornerstates
    THEN <<move(DictGet(cornerstates[windowstate], direction, direction), geometry, mons)>>
    ELSE <<cornermove(corner(windowstate[1], direction), geometry, mons)>>

move_command(direction, geometry, mons) ==
    [windowstate |-> get_windowstate(geometry, mons),
     calls |-> Transition(get_windowstate(geometry, mons), direction, geometry, mons)]

(***************************************************************************)
(* The subscripts dict[key] one call of move_command evaluates, as pairs   *)
(* <<dict, key>> in the order of evaluation: each raises KeyError when the *)
(* key is missing.                                                         *)
(***************************************************************************)
\* move(direction), lines 117-118
MoveLookups(screen, direction) ==
    <<<<screen.anchors, direction>>, <<screen.sizes, direction>>>>

\* lines 98-109, for a windowstate that is neither None nor the direction
TiledLookups(windowstate, direction, screen) ==
    <<<<opposites, direction>>>> \o
    (IF direction \in DOMAIN opposites /\ windowstate = <<opposites[direction]>>
     THEN <<>>
     ELSE IF windowstate \in DOMAIN cornerstates
     THEN <<<<cornerstates, windowstate>>>> \o
          MoveLookups(screen, DictGet(cornerstates[windowstate], direction, direction))
     ELSE <<<<screen.corneranchors, corner(windowstate[1], direction)>>>>)

Lookups(windowstate, direction, screen) ==
    IF windowstate = None THEN MoveLookups(screen, direction)
    ELSE IF windowstate = <<direction>> THEN <<>>
    ELSE TiledLookups(windowstate, direction, screen)

\* the subscripts of `lookups` whose key is missing
Missing(lookups) ==
    [i \in {j \in DOMAIN lookups : lookups[j][2] \notin DOMAIN lookups[j][1]} |-> lookups[i]]

\* whether move_command(direction) raises KeyError
KeyErrors(direction, geometry, mons) ==
    DOMAIN Missing(Lookups(get_windowstate(geometry, mons), direction,
                           get_screen(geometry, mons))) # {}

(***************************************************************************)
(* The state.                                                              *)
(*   monitors   what get_monitors() returns (a sequence of Rect)           *)
(*   frame      the decoration the window manager puts around the focused  *)
(*              window: it extends `left` and `top` pixels to the left of  *)
(*              and above the window and is (w, h) larger than it          *)
(*   focused    whether EWMH().getActiveWindow() yields a window           *)
(*   geometry   what get_geometry() returns for the focused window         *)
(*   clients    each peer that connects to the port: its place in send(),  *)
(*              its message and the key it authenticates with              *)
(*   backlog    the connections waiting for Listener.accept()              *)
(*   listener   the listener process: its place in listen() ("crashed"     *)
(*              once an exception left it, "returned" after the sentinel), *)
(*              the connection it holds                                    *)
(*   queue      EventListener.queue                                        *)
(*   pipeline   the events whose callback is running                       *)
(*   consumer   "running", or "crashed" once an exception left consume()   *)
(*   received   history: the events the listener has put in the queue      *)
(*   handled    history: one entry per event taken from the queue or       *)
(*              pressed, with what its callback saw and did                *)
(***************************************************************************)
VARIABLES monitors, frame, focused, geometry,
          clients, backlog, listener, queue, pipeline, consumer,
          received, handled

vars == <<monitors, frame, focused, geometry,
          clients, backlog, listener, queue, pipeline, consumer,
          received, handled>>

windowVars == <<monitors, frame, focused, geometry>>

channelVars == <<clients, backlog, listener, queue, received>>

Directions == {UP, DOWN, LEFT, RIGHT}

\* CALLBACKS (lines 318-321): its keys; CALLBACKS[d] is move_command(d)
CALLBACKS == DOMAIN opposites

\* what a client may hand to send(): a direction, the stop sentinel, anything else
Messages == Directions \cup {STOP_EVENT_HANDLER, "bogus"}

Clients == 1..MaxClients

\* the key a peer answers the listener's challenge with: that of send(), or
\* that of a program that is not win_tiling
Keys == {AUTHKEY, "not_win_tiling"}

(***************************************************************************)
(* The window manager and the X server, as far as the program sees them.   *)
(***************************************************************************)
\* the geometry the queries return for a window whose decorated rectangle is
\* `parent`: the window's own x and y are relative to its parent
FramedGeometry(parent, fr) ==
    GeometryContainer(
        Rect(fr.left, fr.top, parent.width - fr.w, parent.height - fr.h),
        parent)

\* e.setMoveResizeWindow(win, x, y, w, h) followed by flush (lines 155-156):
\* the window takes the requested rectangle and its frame surrounds it; X has
\* no window narrower or lower than one pixel, such a request changes nothing
setMoveResizeWindow(request, geom, fr) ==
    IF request.w < 1 \/ request.h < 1 THEN geom
    ELSE FramedGeometry(
            Rect(request.x - fr.left, request.y - fr.top,
                 request.w + fr.w, request.h + fr.h), fr)

(***************************************************************************)
(* One call of CALLBACKS[event]() (line 397, lines 90-109).                *)
(***************************************************************************)
ActiveRect(monitor) ==
    [x |-> monitor.x, y |-> monitor.y, w |-> monitor.width, h |-> monitor.height]

\* the entry of `handled` for a command that ran to its end, and the
\* geometry it leaves
Ran(event, done, screen) ==
    /\ geometry' = IF done.calls = <<>> THEN geometry
                   ELSE setMoveResizeWindow(done.calls[1].request, geometry, frame)
    /\ handled' = Append(handled,
            [event |-> event, outcome |-> "ok", windowstate |-> done.windowstate,
             screen |-> screen, calls |-> done.calls])
    /\ UNCHANGED consumer

\* get_geometry() (lines 306-315) raises when no window is focused, a dict
\* subscript raises on a missing key: the exception leaves move_command and
\* consume, which has no handler for it
Raised(event) ==
    /\ consumer' = "crashed"
    /\ handled' = Append(handled,
            [event |-> event, outcome |-> "error", windowstate |-> None,
             screen |-> None, calls |-> <<>>])
    /\ UNCHANGED geometry

callback(event) ==
    IF ~focused THEN Raised(event)
    ELSE IF KeyErrors(event, geometry, monitors) THEN Raised(event)
    ELSE Ran(event, move_command(event, geometry, monitors),
             ActiveRect(get_active_monitor(geometry, monitors)))

(***************************************************************************)
(* send (lines 400-402).                                                   *)
(***************************************************************************)
\* Client(address(port), authkey=...): the connection waits for accept()
ClientConnect(c, key) ==
    /\ clients[c].pc = "start"
    /\ clients' = [clients EXCEPT ![c].pc = "connecting", ![c].key = key]
    /\ backlog' = Append(backlog, c)
    /\ UNCHANGED <<windowVars, listener, queue, pipeline, consumer, received, handled>>

\* client.send(msg), after which the client process ends
ClientSend(c, msg) ==
    /\ clients[c].pc = "connected"
    /\ clients' = [clients EXCEPT ![c].pc = "sent", ![c].msg = msg]
    /\ UNCHANGED <<windowVars, backlog, listener, queue, pipeline, consumer,
                   received, handled>>

\* a peer that is not send(): it closes the connection and has sent nothing
ClientClose(c) ==
    /\ clients[c].pc = "connected"
    /\ clients' = [clients EXCEPT ![c].pc = "gone"]
    /\ UNCHANGED <<windowVars, backlog, listener, queue, pipeline, consumer,
                   received, handled>>

(***************************************************************************)
(* EventListener.listen (lines 338-344).                                   *)
(***************************************************************************)
\* connection = self.listener.accept(): the listener was made with
\* authkey=AUTHKEY (line 378), so accept() raises AuthenticationError when the
\* peer's answer is of another key, and listen() has no handler for it
ListenerAccept ==
    /\ listener.pc = "accept"
    /\ backlog # <<>>
    /\ backlog' = Tail(backlog)
    /\ IF clients[Head(backlog)].key = AUTHKEY
       THEN /\ listener' = [pc |-> "recv", connection |-> Head(backlog)]
            /\ clients' = [clients EXCEPT ![Head(backlog)].pc = "connected"]
       ELSE /\ listener' = [pc |-> "crashed", connection |-> 0]
            /\ clients' = [clients EXCEPT ![Head(backlog)].pc = "refused"]
    /\ UNCHANGED <<windowVars, queue, pipeline, consumer, received, handled>>

\* what listen() does with the event recv() returned
ListenerGot(event) ==
    IF event = STOP_EVENT_HANDLER
    THEN /\ listener' = [pc |-> "returned", connection |-> 0]
         /\ UNCHANGED <<queue, received>>
    ELSE /\ listener' = [pc |-> "accept", connection |-> 0]
         /\ queue' = Append(queue, event)
         /\ received' = Append(received, event)

\* event = connection.recv(), then return on the sentinel or self.queue.put(event);
\* recv() raises EOFError when the peer closed without sending, and listen()
\* has no handler for it
ListenerRecv ==
    /\ listener.pc = "recv"
    /\ clients[listener.connection].pc \in {"sent", "gone"}
    /\ IF clients[listener.connection].pc = "sent"
       THEN /\ ListenerGot(clients[listener.connection].msg)
            /\ clients' = [clients EXCEPT ![listener.connection].pc = "closed"]
       ELSE /\ listener' = [pc |-> "crashed", connection |-> 0]
            /\ clients' = [clients EXCEPT ![listener.connection].pc = "dropped"]
            /\ UNCHANGED <<queue, received>>
    /\ UNCHANGED <<windowVars, backlog, pipeline, consumer, handled>>

(***************************************************************************)
(* consume (lines 387-397).                                                *)
(***************************************************************************)
\* a slip: each callback handed to a thread of its own, the loop going on
ConsumerReady_at_once == TRUE

\* consume is one sequential loop: queue.get() runs when no callback is running
ConsumerReady == pipeline = <<>>

\* event = queue.get() and the lookup callbacks[event]
ConsumeGet ==
    /\ consumer = "running"
    /\ ConsumerReady
    /\ queue # <<>>
    /\ queue' = Tail(queue)
    /\ IF Head(queue) \in CALLBACKS
       THEN /\ pipeline' = Append(pipeline, Head(queue))
            /\ UNCHANGED handled
       ELSE \* except KeyError: print("unhandled event", event)
            /\ handled' = Append(handled,
                    [event |-> Head(queue), outcome |-> "unhandled",
                     windowstate |-> None, screen |-> None, calls |-> <<>>])
            /\ UNCHANGED pipeline
    /\ UNCHANGED <<windowVars, clients, backlog, listener, consumer, received>>

\* callback()
ConsumeCallback ==
    /\ consumer = "running"
    /\ pipeline # <<>>
    /\ callback(Head(pipeline))
    /\ pipeline' = Tail(pipeline)
    /\ UNCHANGED <<monitors, frame, focused, channelVars>>

\* the user focuses a window, or leaves none focused
FocusChange ==
    /\ focused' = ~focused
    /\ UNCHANGED <<monitors, frame, geometry, channelVars, pipeline, consumer, handled>>

(***************************************************************************)
(* Initial states.                                                         *)
(***************************************************************************)
Frames ==
    {[left |-> 0, top |-> 0, w |-> 0, h |-> 0],
     [left |-> 0, top |-> 1, w |-> 1, h |-> 1],
     [left |-> 1, top |-> 0, w |-> 1, h |-> 1]}

\* one monitor away from the origin, or two of the same size side by side
Layouts(dims) ==
    {<<Rect(1, 2, w, h)>> : w \in dims, h \in dims} \cup
    {<<Rect(0, 0, w, h), Rect(w, 0, w, h)>> : w \in dims, h \in dims}

WindowBox(xs, ys, ws, hs) ==
    {Rect(x, y, w, h) : x \in xs, y \in ys, w \in ws, h \in hs}

ChannelInit ==
    /\ clients = [c \in Clients |-> [pc |-> "start", msg |-> "", key |-> ""]]
    /\ backlog = <<>>
    /\ listener = [pc |-> "accept", connection |-> 0]
    /\ queue = <<>>
    /\ pipeline = <<>>
    /\ consumer = "running"
    /\ received = <<>>
    /\ handled = <<>>

WindowInit(layouts, frames, box) ==
    /\ monitors \in layouts
    /\ frame \in frames
    /\ \E parent \in box :
          /\ parent.width - frame.w >= 1
          /\ parent.height - frame.h >= 1
          /\ geometry = FramedGeometry(parent, frame)

(***************************************************************************)
(* Spec: the server (listener and consumer) with its clients.              *)
(***************************************************************************)
Init ==
    /\ WindowInit({<<Rect(1, 2, 5, 4), Rect(6, 2, 5, 4)>>},
                  {f \in Frames : f.w = 1 /\ f.left = 0},
                  {Rect(1, 2, 3, 2)})
    /\ focused = TRUE
    /\ ChannelInit

Next ==
    \/ \E c \in Clients, key \in Keys : ClientConnect(c, key)
    \/ \E c \in Clients, msg \in Messages : ClientSend(c, msg)
    \/ \E c \in Clients : ClientClose(c)
    \/ ListenerAccept
    \/ ListenerRecv
    \/ ConsumeGet
    \/ ConsumeCallback
    \/ FocusChange

Spec == Init /\ [][Next]_vars

\* callback() is enabled exactly when the consumer runs and holds an event:
\* weak fairness of ConsumeCallback with that written for ENABLED
CallbackFair ==
    \/ []<>~(consumer = "running" /\ pipeline # <<>>)
    \/ []<><<ConsumeCallback>>_vars

\* the listener and the consumer are processes the operating system schedules
FairSpec ==
    /\ Spec
    /\ WF_vars(ListenerAccept)
    /\ WF_vars(ListenerRecv)
    /\ WF_vars(ConsumeGet)
    /\ CallbackFair

(***************************************************************************)
(* SpecTile: one command, CALLBACKS[d](), on every window of a box, every  *)
(* monitor layout up to MaxDim and every frame.                            *)
(***************************************************************************)
InitTile ==
    /\ WindowInit(Layouts(1..MaxDim), {f \in Frames : f.left = 0},
                  WindowBox(0..(MaxDim \div 2 + 1), 0..(MaxDim \div 2 + 2),
                            1..MaxDim, 1..MaxDim))
    /\ focused = TRUE
    /\ ChannelInit

Press(d) ==
    /\ consumer = "running"
    /\ callback(d)
    /\ UNCHANGED <<monitors, frame, focused, channelVars, pipeline>>

NextTile == \E d \in Directions : handled = <<>> /\ Press(d)

SpecTile == InitTile /\ [][NextTile]_vars

(***************************************************************************)
(* SpecSeq: up to MaxPresses commands in a row on one window.              *)
(***************************************************************************)
InitSeq ==
    /\ WindowInit(Layouts((MaxDim - 1)..MaxDim), Frames,
                  WindowBox({1, 2}, {2}, {2, 4}, {2, 4}))
    /\ focused = TRUE
    /\ ChannelInit

NextSeq == \E d \in Directions : Len(handled) < MaxPresses /\ Press(d)

SpecSeq == InitSeq /\ [][NextSeq]_vars

(***************************************************************************)
(* SpecDeco: up to MaxPresses commands on a window whose decorations are   *)
(* up to MaxInset wide and high, on monitors large enough for a quarter    *)
(* of them to hold the decorations.                                        *)
(***************************************************************************)
\* a border of dw div 2 on the left, right and bottom, the title bar above
InsetFrames ==
    {[left |-> dw \div 2, top |-> dh - dw \div 2, w |-> dw, h |-> dh] :
        dw \in 0..MaxInset, dh \in (MaxInset \div 2)..MaxInset}

InitDeco ==
    /\ WindowInit(Layouts({2 * MaxInset + 2, 2 * MaxInset + 3}),
                  InsetFrames \cup {f \in Frames : f.left = 1},
                  WindowBox({1}, {2, 3}, {MaxInset + 1, 2 * MaxInset + 2}, {MaxInset + 2}))
    /\ focused = TRUE
    /\ ChannelInit

NextDeco == \E d \in Directions : Len(handled) < MaxPresses /\ Press(d)

SpecDeco == InitDeco /\ [][NextDeco]_vars

(***************************************************************************)
(* SpecRepeat: one direction pressed up to MaxPresses + 1 times, on a      *)
(* window that starts untiled, full-screen, at a half or at a quarter of   *)
(* a monitor wider and higher than 3.                                      *)
(***************************************************************************)
\* the rectangles the Screen of a monitor lists, the monitor itself, and one
\* rectangle that is none of them
StartRects(monitor) ==
    {Rect(stateinfo(ScreenOf(monitor))[i][2].x, stateinfo(ScreenOf(monitor))[i][2].y,
          stateinfo(ScreenOf(monitor))[i][3].w, stateinfo(ScreenOf(monitor))[i][3].h) :
        i \in 1..8} \cup
    {Rect(monitor.x, monitor.y, monitor.width, monitor.height),
     Rect(monitor.x + 1, monitor.y + 1, monitor.width - 1, monitor.height - 2)}

InitRepeat ==
    /\ monitors \in Layouts({MaxDim, MaxDim + 1})
    /\ frame \in Frames
    /\ \E k \in DOMAIN monitors : \E parent \in StartRects(monitors[k]) :
          geometry = FramedGeometry(parent, frame)
    /\ focused = TRUE
    /\ ChannelInit

NextRepeat ==
    \E d \in Directions :
        /\ Len(handled) < MaxPresses + 1
        /\ handled # <<>> => d = handled[1].event
        /\ Press(d)

SpecRepeat == InitRepeat /\ [][NextRepeat]_vars

(***************************************************************************)
(* SpecFull: up to MaxPresses commands on a window that starts at a listed *)
(* rectangle of a monitor of any width and height up to MaxDim, or fills   *)
(* the monitor.                                                            *)
(***************************************************************************)
InitFull ==
    /\ monitors \in Layouts(1..MaxDim)
    /\ frame \in {f \in Frames : f.left = 0}
    /\ \E k \in DOMAIN monitors : \E parent \in StartRects(monitors[k]) :
          /\ parent.width - frame.w >= 1
          /\ parent.height - frame.h >= 1
          /\ geometry = FramedGeometry(parent, frame)
    /\ focused = TRUE
    /\ ChannelInit

NextFull == \E d \in Directions : Len(handled) < MaxPresses /\ Press(d)

SpecFull == InitFull /\ [][NextFull]_vars

(***************************************************************************)
(* What the specification expects, written from its section 4.1.           *)
(***************************************************************************)
Last(seq) == seq[Len(seq)]

OkEntries == {handled[i] : i \in {j \in DOMAIN handled : handled[j].outcome = "ok"}}

HalfRect(s, d) ==
    CASE d = "left" -> [x |-> s.x, y |-> s.y, w |-> s.w \div 2, h |-> s.h]
      [] d = "right" -> [x |-> s.x + s.w \div 2, y |-> s.y, w |-> s.w \div 2, h |-> s.h]
      [] d = "up" -> [x |-> s.x, y |-> s.y, w |-> s.w, h |-> s.h \div 2]
      [] d = "down" -> [x |-> s.x, y |-> s.y + s.h \div 2, w |-> s.w, h |-> s.h \div 2]

\* the quarter that contains both directions of the set c
QuarterRect(s, c) ==
    [x |-> s.x + (IF "right" \in c THEN s.w \div 2 ELSE 0),
     y |-> s.y + (IF "down" \in c THEN s.h \div 2 ELSE 0),
     w |-> s.w \div 2, h |-> s.h \div 2]

FullRect(s) == [x |-> s.x, y |-> s.y, w |-> s.w, h |-> s.h]

Corners == {<<"left", "up">>, <<"right", "up">>, <<"down", "left">>, <<"down", "right">>}

Halves == {<<d>> : d \in {"left", "right", "up", "down"}}

Opposite(d) ==
    CASE d = "left" -> "right" [] d = "right" -> "left"
      [] d = "up" -> "down" [] d = "down" -> "up"

ListedRect(s, p) ==
    IF Len(p) = 1 THEN HalfRect(s, p[1]) ELSE QuarterRect(s, {p[1], p[2]})

(***************************************************************************)
(* The claims.                                                             *)
(***************************************************************************)

\* C1: a command d that finds the window untiled (None) issues exactly one
\* move, whose target before the decoration adjustment is the half of the
\* screen for d: LEFT (x, y, w div 2, h), RIGHT (x + w div 2, y, w div 2, h),
\* UP (x, y, w, h div 2), DOWN (x, y + h div 2, w, h div 2).
C1_UntiledSnapsToHalf ==
    \A e \in OkEntries :
        e.windowstate = None =>
            /\ Len(e.calls) = 1
            /\ e.calls[1].fn = "move"
            /\ e.calls[1].target = HalfRect(e.screen, e.event)

C1_Witness ==
    \E e \in OkEntries :
        /\ e.windowstate = None
        /\ e.event = "left"
        /\ e.screen = [x |-> 1, y |-> 2, w |-> 4, h |-> 4]
        /\ e.calls[1].target = [x |-> 1, y |-> 2, w |-> 2, h |-> 4]

\* C2: a command issues no move, and leaves the geometry of the window as it
\* was, exactly when the position it finds equals the requested direction;
\* every other (position, direction) pair issues exactly one move.
C2_NoMoveIffAlreadyThere ==
    [][(handled' # handled /\ Last(handled').outcome = "ok") =>
        /\ (Last(handled').calls = <<>>) <=>
                (Last(handled').windowstate = <<Last(handled').event>>)
        /\ Len(Last(handled').calls) <= 1
        /\ (Last(handled').calls = <<>> => geometry' = geometry)]_vars

C2_Witness ==
    \E e \in OkEntries :
        /\ e.windowstate = <<"left">>
        /\ e.event = "left"
        /\ e.calls = <<>>

\* C3: mirror law: a command opposite(d) that finds the window at Half(d)
\* maximises: the one rectangle it issues, before the decoration adjustment,
\* is the whole screen rectangle (x, y, w, h).
C3_MirrorMaximises ==
    \A e \in OkEntries :
        e.windowstate = <<Opposite(e.event)>> =>
            /\ Len(e.calls) = 1
            /\ e.calls[1].fn = "maximise"
            /\ e.calls[1].target = FullRect(e.screen)

C3_Witness ==
    \E e \in OkEntries :
        /\ e.windowstate = <<"left">>
        /\ e.event = "right"
        /\ e.screen = [x |-> 1, y |-> 2, w |-> 4, h |-> 4]
        /\ e.calls[1].target = [x |-> 1, y |-> 2, w |-> 4, h |-> 4]

\* C4: a command r that finds the window at Half(c), r neither c nor
\* opposite(c), moves it to the quarter that contains both c and r: the
\* corner is one of the four valid corners, the same whichever of c and r
\* comes first, and the rectangle is that corner's anchor with the size
\* (w div 2, h div 2).
C4_HalfToQuarter ==
    \A e \in OkEntries :
        (e.windowstate \in Halves /\ e.windowstate[1] \notin {e.event, Opposite(e.event)}) =>
            /\ Len(e.calls) = 1
            /\ e.calls[1].fn = "cornermove"
            /\ e.calls[1].arg \in Corners
            /\ {e.calls[1].arg[1], e.calls[1].arg[2]} = {e.windowstate[1], e.event}
            /\ corner(e.windowstate[1], e.event) = corner(e.event, e.windowstate[1])
            /\ e.calls[1].target = QuarterRect(e.screen, {e.windowstate[1], e.event})

C4_Witness ==
    \E e \in OkEntries :
        /\ e.windowstate = <<"down">>
        /\ e.event = "left"
        /\ e.screen = [x |-> 1, y |-> 2, w |-> 4, h |-> 4]
        /\ e.calls[1].arg = <<"down", "left">>
        /\ e.calls[1].target = [x |-> 1, y |-> 4, w |-> 2, h |-> 2]

\* the table of section 4.3: the direction m of the Half a corner moves to
CornerTable(c, d) ==
    CASE c = <<"left", "up">> /\ d = "down" -> "left"
      [] c = <<"left", "up">> /\ d = "right" -> "up"
      [] c = <<"right", "up">> /\ d = "down" -> "right"
      [] c = <<"right", "up">> /\ d = "left" -> "up"
      [] c = <<"down", "left">> /\ d = "up" -> "left"
      [] c = <<"down", "left">> /\ d = "right" -> "down"
      [] c = <<"down", "right">> /\ d = "up" -> "right"
      [] c = <<"down", "right">> /\ d = "left" -> "down"
      [] OTHER -> d

\* C5: a command d that finds the window at a corner moves it to Half(m), m
\* given by the per-corner table and d itself when d is no key of the
\* corner's map; it never moves to a quarter or to the full screen.
C5_CornerToHalf ==
    \A e \in OkEntries :
        e.windowstate \in Corners =>
            /\ Len(e.calls) = 1
            /\ e.calls[1].fn = "move"
            /\ e.calls[1].arg = <<CornerTable(e.windowstate, e.event)>>
            /\ e.calls[1].target = HalfRect(e.screen, CornerTable(e.windowstate, e.event))

C5_Witness ==
    \E e \in OkEntries :
        /\ e.windowstate = <<"left", "up">>
        /\ e.event = "down"
        /\ e.calls[1].arg = <<"left">>
        /\ e.calls[1].target = HalfRect(e.screen, "left")

Positions == Halves \cup Corners

AsRect(r) == [x |-> r.x, y |-> r.y, w |-> r.width, h |-> r.height]

\* C9: on a screen wider and higher than 3 the classifier returns None when
\* the decorated rectangle of the window differs from every listed (anchor,
\* size), the one matching position otherwise, and no two of the eight listed
\* positions have the same (anchor, size).
C9_ExactMatchClassification ==
    [][(/\ handled' # handled
        /\ Last(handled').outcome = "ok"
        /\ Last(handled').screen.w > 3
        /\ Last(handled').screen.h > 3) =>
        /\ \A p, q \in Positions :
              p # q => ListedRect(Last(handled').screen, p) #
                       ListedRect(Last(handled').screen, q)
        /\ (\A p \in Positions :
              ListedRect(Last(handled').screen, p) # AsRect(geometry.parent))
              => Last(handled').windowstate = None
        /\ \A p \in Positions :
              ListedRect(Last(handled').screen, p) = AsRect(geometry.parent)
              => Last(handled').windowstate = p]_vars

C9_Witness ==
    \E e \in OkEntries :
        /\ e.windowstate = <<"down", "right">>
        /\ e.screen = [x |-> 1, y |-> 2, w |-> 4, h |-> 4]
        /\ e.event = "down"
        /\ e.calls[1].target = [x |-> 1, y |-> 4, w |-> 4, h |-> 2]

\* the window manager places the frame as _move assumes: border_width to the
\* left of the window and the rest of the decoration height above it
FrameAsAssumed ==
    /\ frame.left = frame.w \div 2
    /\ frame.top = frame.h - frame.w \div 2

RequestsFit == \A e \in OkEntries : \A i \in DOMAIN e.calls :
    e.calls[i].request.w >= 1 /\ e.calls[i].request.h >= 1

\* the position the command after the k-th finds: the one it recorded, or
\* the classification of the geometry as it is now
StateAfter(k) ==
    IF k < Len(handled) THEN handled[k + 1].windowstate
    ELSE get_windowstate(geometry, monitors)

\* C6: corner-cycle law, each move applied exactly: from an untiled window
\* LEFT then UP leave it at Quarter({LEFT, UP}); DOWN then leaves it at
\* Half(LEFT), RIGHT at Half(UP).
C6_CornerCycle ==
    (FrameAsAssumed /\ RequestsFit) =>
        \A i \in DOMAIN handled :
            (/\ i + 1 \in DOMAIN handled
             /\ handled[i].windowstate = None
             /\ handled[i].event = "left"
             /\ handled[i + 1].event = "up") =>
                /\ StateAfter(i) = <<"left">>
                /\ StateAfter(i + 1) = <<"left", "up">>
                /\ (i + 2 \in DOMAIN handled /\ handled[i + 2].event = "down")
                      => StateAfter(i + 2) = <<"left">>
                /\ (i + 2 \in DOMAIN handled /\ handled[i + 2].event = "right")
                      => StateAfter(i + 2) = <<"up">>

C6_Witness ==
    /\ FrameAsAssumed /\ RequestsFit
    /\ frame.w = 1
    /\ Len(handled) = 3
    /\ handled[1].windowstate = None
    /\ <<handled[1].event, handled[2].event, handled[3].event>> = <<"left", "up", "down">>
    /\ get_windowstate(geometry, monitors) = <<"left">>
    /\ geometry.parent = Rect(1, 2, 2, 4)

IsCommand(m) == m \in {"left", "right", "up", "down"}

IsCommandEntry(e) == IsCommand(e.event)

\* the commands the listener received, and those the consumer dispatched
ReceivedCommands == SelectSeq(received, IsCommand)

AppliedCommands ==
    [i \in 1..Len(SelectSeq(handled, IsCommandEntry)) |->
        SelectSeq(handled, IsCommandEntry)[i].event]

IsPrefix(a, b) == Len(a) <= Len(b) /\ \A i \in 1..Len(a) : a[i] = b[i]

\* C7: the consumer applies the commands in the order the listener received
\* them, none reordered or merged, and every received command is applied.
C7_CommandOrdering ==
    /\ [](IsPrefix(AppliedCommands, ReceivedCommands))
    /\ \A n \in 1..MaxClients :
          (Len(ReceivedCommands) >= n) ~> (Len(AppliedCommands) >= n)

\* the order alone: what is applied is a prefix of what was received
C7_OrderOnly == IsPrefix(AppliedCommands, ReceivedCommands)

\* C7 as long as no exception leaves consume
C7_WhileConsumerRuns == ([](consumer = "running")) => C7_CommandOrdering

\* C8: at every moment at most one command is inside the transition
\* pipeline, also while the listener goes on enqueuing.
C8_OneCommandInPipeline == Len(pipeline) <= 1

C8_Witness ==
    /\ Len(pipeline) = 1
    /\ queue # <<>>
    /\ IsCommand(Head(queue))

\* C10: a command whose window query fails issues no move and leaves the
\* consumer alive, so that what is queued after it is still dequeued.
C10_QueryFailureRecoverable ==
    \A i \in DOMAIN handled :
        handled[i].outcome = "error" =>
            /\ handled[i].calls = <<>>
            /\ consumer = "running"
            /\ ((queue # <<>> /\ pipeline = <<>>) => ENABLED ConsumeGet)

\* the peers whose connection the listener turned away: a wrong key, or
\* closed with nothing sent
Rejected == {c \in Clients : clients[c].pc \in {"refused", "dropped"}}

\* C11: a malformed or unauthenticated connection is rejected with nothing
\* enqueued for it and the listener keeps running, so that the messages of
\* the clients after it are still received.
C11_RejectedConnectionHarmless ==
    Rejected # {} =>
        /\ Len(received) <= Cardinality({c \in Clients : clients[c].pc = "closed"})
        /\ listener.pc # "crashed"
        /\ ((backlog # <<>> /\ listener.pc = "accept") => ENABLED ListenerAccept)

\* an unrecognized message has been taken from the queue
Dropped == \E i \in DOMAIN handled : handled[i].outcome = "unhandled"

\* C12: an unrecognized message taken from the queue is dropped: it issues no
\* move and leaves the window unchanged, the consumer does not stop, and the
\* commands queued after it are applied, in the order they were received.
C12_UnrecognizedDropped ==
    /\ [][(handled' # handled /\ Last(handled').outcome = "unhandled") =>
            /\ ~IsCommand(Last(handled').event)
            /\ Last(handled').calls = <<>>
            /\ geometry' = geometry
            /\ consumer' = "running"
            /\ queue' = Tail(queue)]_vars
    /\ [](IsPrefix(AppliedCommands, ReceivedCommands))
    /\ \A n \in 1..MaxClients :
          (Dropped /\ Len(ReceivedCommands) >= n) ~> (Len(AppliedCommands) >= n)

\* the step that drops an unrecognized message, alone
C12_DropStep ==
    [][(handled' # handled /\ Last(handled').outcome = "unhandled") =>
            /\ ~IsCommand(Last(handled').event)
            /\ Last(handled').calls = <<>>
            /\ geometry' = geometry
            /\ consumer' = "running"
            /\ queue' = Tail(queue)]_vars

\* the commands after a dropped message as long as no exception leaves consume
C12_WhileConsumerRuns ==
    ([](consumer = "running")) =>
        \A n \in 1..MaxClients :
            (Dropped /\ Len(ReceivedCommands) >= n) ~> (Len(AppliedCommands) >= n)

\* the listener has received the stop sentinel and left listen()
Stopped == listener.pc = "returned"

\* the listener takes a step while the event it waits for is the sentinel
SentinelTaken ==
    /\ listener.pc = "recv"
    /\ clients[listener.connection].pc = "sent"
    /\ clients[listener.connection].msg = "win_tiling_end"
    /\ listener' # listener

\* what the sentinel does to the listener and the queue
SentinelStep ==
    /\ SentinelTaken => (Stopped' /\ queue' = queue /\ received' = received)
    /\ Stopped => (listener' = listener /\ IsPrefix(backlog, backlog') /\ received' = received)
    /\ Stopped => \A c \in Clients : clients'[c].pc = "connected" => clients[c].pc = "connected"
    /\ Stopped => (queue' = queue \/ queue' = Tail(queue))

\* C13: on the stop sentinel the listener stops accepting and exits: the
\* sentinel is never enqueued, nothing sent after it is enqueued or applied,
\* and every command enqueued before it is still applied by the consumer.
C13_StopSentinel ==
    /\ [][SentinelStep]_vars
    /\ [](\A i \in DOMAIN received : received[i] # "win_tiling_end")
    /\ [](\A i \in DOMAIN handled : handled[i].event # "win_tiling_end")
    /\ [](IsPrefix(AppliedCommands, ReceivedCommands))
    /\ \A n \in 1..MaxClients :
          (Stopped /\ Len(ReceivedCommands) >= n) ~> (Len(AppliedCommands) >= n)

\* the listener's part alone
C13_ListenerStops == [][SentinelStep]_vars

C13_SentinelNotEnqueued ==
    /\ \A i \in DOMAIN received : received[i] # "win_tiling_end"
    /\ \A i \in DOMAIN handled : handled[i].event # "win_tiling_end"

\* the commands enqueued before the sentinel as long as no exception leaves consume
C13_WhileConsumerRuns ==
    ([](consumer = "running")) =>
        \A n \in 1..MaxClients :
            (Stopped /\ Len(ReceivedCommands) >= n) ~> (Len(AppliedCommands) >= n)

\* C14: no command waits on another beyond the order of the queue: while a
\* client has connected and not yet sent, the listener is still able to take
\* the connection of a second client that waits.
C14_NoBlockingBeyondFifo ==
    \A a, b \in Clients :
        (/\ clients[a].pc = "connected"
         /\ clients[b].pc = "connecting"
         /\ clients[b].key = AUTHKEY
         /\ listener.pc \in {"accept", "recv"}) => ENABLED ListenerAccept

\* the transition rules of section 4.3
Rules == {"untiled", "same", "mirror", "quarter", "corner"}

RuleApplies(rule, p, d) ==
    CASE rule = "untiled" -> p = <<>>
      [] rule = "same" -> p = <<d>>
      [] rule = "mirror" -> p = <<Opposite(d)>>
      [] rule = "quarter" -> p \in Halves /\ p[1] \notin {d, Opposite(d)}
      [] rule = "corner" -> p \in Corners

RuleCall(rule) ==
    CASE rule = "untiled" -> <<"move">>
      [] rule = "same" -> <<>>
      [] rule = "mirror" -> <<"maximise">>
      [] rule = "quarter" -> <<"cornermove">>
      [] rule = "corner" -> <<"move">>

\* C15: classification and transition never raise: every command ends
\* without an exception, the position it finds is None, a direction or one
\* of the four corners, exactly one transition rule applies to the pair
\* (position, direction) and is the one carried out, and every subscript of
\* opposites, cornerstates, anchors, sizes and corneranchors finds its key.
C15_Totality ==
    \A i \in DOMAIN handled :
        /\ handled[i].outcome = "ok"
        /\ handled[i].windowstate \in {<<>>} \cup Halves \cup Corners
        /\ Cardinality({r \in Rules :
                RuleApplies(r, handled[i].windowstate, handled[i].event)}) = 1
        /\ \A r \in Rules :
              RuleApplies(r, handled[i].windowstate, handled[i].event) =>
                  [k \in DOMAIN handled[i].calls |-> handled[i].calls[k].fn] = RuleCall(r)
        /\ Missing(Lookups(handled[i].windowstate, handled[i].event,
                           Screen(handled[i].screen.x, handled[i].screen.y,
                                  handled[i].screen.w, handled[i].screen.h))) = <<>>

C15_Witness ==
    \E e \in OkEntries :
        /\ e.windowstate = <<"right", "up">>
        /\ e.event = "left"
        /\ e.calls[1].fn = "move"
        /\ e.calls[1].arg = <<"up">>
        /\ Len(Lookups(e.windowstate, e.event,
                       Screen(e.screen.x, e.screen.y, e.screen.w, e.screen.h))) = 4

\* the pixels of a rectangle
Pixels(r) == {<<i, j>> : i \in r.x..(r.x + r.w - 1), j \in r.y..(r.y + r.h - 1)}

\* the regions a Screen object holds for a direction and for a corner
HalfRegion(screen, d) ==
    [x |-> screen.anchors[d].x, y |-> screen.anchors[d].y,
     w |-> screen.sizes[d].w, h |-> screen.sizes[d].h]

CornerRegion(screen, c) ==
    [x |-> screen.corneranchors[c].x, y |-> screen.corneranchors[c].y,
     w |-> screen.cornersize.w, h |-> screen.cornersize.h]

\* the last column and the last row of a screen of odd width or height
RoundingStrip(r) ==
    {p \in Pixels(r) : \/ (r.w % 2 = 1 /\ p[1] = r.x + r.w - 1)
                       \/ (r.h % 2 = 1 /\ p[2] = r.y + r.h - 1)}

PartitionedAsClaimed(r, screen) ==
    /\ HalfRegion(screen, "left").w + HalfRegion(screen, "right").w \in {r.w, r.w - 1}
    /\ HalfRegion(screen, "up").h + HalfRegion(screen, "down").h \in {r.h, r.h - 1}
    /\ Pixels(HalfRegion(screen, "left")) \cap Pixels(HalfRegion(screen, "right")) = {}
    /\ Pixels(HalfRegion(screen, "up")) \cap Pixels(HalfRegion(screen, "down")) = {}
    /\ \A d \in {"left", "right"} :
          HalfRegion(screen, d).y = r.y /\ HalfRegion(screen, d).h = r.h
    /\ \A d \in {"up", "down"} :
          HalfRegion(screen, d).x = r.x /\ HalfRegion(screen, d).w = r.w
    /\ \A d \in {"left", "right", "up", "down"} :
          Pixels(HalfRegion(screen, d)) \subseteq Pixels(r)
    /\ DOMAIN screen.corneranchors = Corners
    /\ \A c \in Corners :
          /\ CornerRegion(screen, c).w = r.w \div 2
          /\ CornerRegion(screen, c).h = r.h \div 2
          /\ Pixels(CornerRegion(screen, c)) \subseteq Pixels(r)
    /\ \A c1, c2 \in Corners :
          c1 # c2 => Pixels(CornerRegion(screen, c1)) \cap Pixels(CornerRegion(screen, c2)) = {}
    /\ UNION {Pixels(CornerRegion(screen, c)) : c \in Corners} = Pixels(r) \ RoundingStrip(r)
    /\ (r.w % 2 = 0 /\ r.h % 2 = 0) =>
          4 * (screen.cornersize.w * screen.cornersize.h) = r.w * r.h

\* C16: for the screen of every command: the LEFT and RIGHT widths sum to w
\* or w - 1 and the UP and DOWN heights to h or h - 1, opposite halves do not
\* overlap, each half spans the screen on the other axis, and the four
\* corner regions of size (w div 2, h div 2) are pairwise disjoint, lie in
\* the screen and cover it but for the rounding strip of an odd width or
\* height.
C16_PartitionGeometry ==
    \A e \in OkEntries :
        PartitionedAsClaimed(e.screen, Screen(e.screen.x, e.screen.y, e.screen.w, e.screen.h))

C16_Witness ==
    \E e \in OkEntries :
        /\ e.screen = [x |-> 1, y |-> 2, w |-> 3, h |-> 4]
        /\ CornerRegion(Screen(1, 2, 3, 4), <<"down", "right">>) =
               [x |-> 2, y |-> 4, w |-> 1, h |-> 2]
        /\ RoundingStrip(e.screen) = {<<3, 2>>, <<3, 3>>, <<3, 4>>, <<3, 5>>}

\* the place of an X request in the order _move issues them
OpIndex(ops, op) == CHOOSE i \in DOMAIN ops : ops[i] = op

\* C17: for a target (tx, ty, tw, th) and decorations (dw, dh) the rectangle
\* handed to setMoveResizeWindow is (tx + dw div 2, ty + dh - dw div 2,
\* tw - dw, th - dh), and the window is unmaximized before the decorations
\* are measured and before the move is issued.
C17_DecorationArithmetic ==
    \A e \in OkEntries : \A k \in DOMAIN e.calls :
        /\ e.calls[k].request =
              [x |-> e.calls[k].target.x + frame.w \div 2,
               y |-> e.calls[k].target.y + frame.h - frame.w \div 2,
               w |-> e.calls[k].target.w - frame.w,
               h |-> e.calls[k].target.h - frame.h]
        /\ \A u \in {"unmaximize_horz", "unmaximize_vert"} :
              /\ \E i \in DOMAIN e.calls[k].ops : e.calls[k].ops[i] = u
              /\ OpIndex(e.calls[k].ops, u) <
                    OpIndex(e.calls[k].ops, "get_decoration_dimensions")
              /\ OpIndex(e.calls[k].ops, u) < OpIndex(e.calls[k].ops, "setMoveResizeWindow")
        /\ OpIndex(e.calls[k].ops, "get_decoration_dimensions") <
              OpIndex(e.calls[k].ops, "setMoveResizeWindow")

C17_Witness ==
    \E e \in OkEntries :
        /\ frame.w = 2 /\ frame.h = 3
        /\ Len(e.calls) = 1
        /\ e.calls[1].target = [x |-> 1, y |-> 2, w |-> 4, h |-> 8]
        /\ e.calls[1].request = [x |-> 2, y |-> 4, w |-> 2, h |-> 5]

\* C18: with each move applied exactly, on screens wider and higher than 3,
\* one direction d pressed again and again from any position: after at most
\* three presses the window is at Half(d), and every press that finds it
\* there issues no move and leaves it there.
C18_Convergence ==
    (/\ FrameAsAssumed /\ RequestsFit
     /\ \A i \in DOMAIN handled : handled[i].event = handled[1].event
     /\ \A e \in OkEntries : e.screen.w > 3 /\ e.screen.h > 3) =>
        /\ Len(handled) >= 3 => StateAfter(3) = <<handled[1].event>>
        /\ \A i \in DOMAIN handled :
              i > 3 => (handled[i].windowstate = <<handled[1].event>> /\ handled[i].calls = <<>>)
        /\ \A i \in DOMAIN handled :
              handled[i].windowstate = <<handled[1].event>> =>
                  (handled[i].calls = <<>> /\ StateAfter(i) = <<handled[1].event>>)

C18_Witness ==
    /\ FrameAsAssumed /\ RequestsFit
    /\ Len(handled) = 4
    /\ \A i \in 1..4 : handled[i].event = "right"
    /\ handled[1].windowstate = <<"left", "up">>
    /\ handled[2].windowstate = <<"up">>
    /\ handled[3].windowstate = <<"right", "up">>
    /\ handled[4].windowstate = <<"right">>
    /\ handled[4].calls = <<>>

\* C19: with the frame dw div 2 to the left of and dh - dw div 2 above the
\* window, the decorated rectangle after a move to Half(d) or Quarter(c) is
\* that position's (anchor, size) exactly, and the classifier, which reads
\* the decorated rectangle, finds the window at d or c for the next command.
C19_RoundTrip ==
    (FrameAsAssumed /\ RequestsFit) =>
        \A i \in DOMAIN handled :
            (/\ handled[i].outcome = "ok"
             /\ handled[i].calls # <<>>
             /\ handled[i].calls[1].fn \in {"move", "cornermove"}) =>
                /\ handled[i].calls[1].target =
                      ListedRect(handled[i].screen, handled[i].calls[1].arg)
                /\ StateAfter(i) = handled[i].calls[1].arg
                /\ i = Len(handled) =>
                      /\ AsRect(geometry.parent) = handled[i].calls[1].target
                      /\ geometry.parent.width - geometry.window.width = frame.w
                      /\ geometry.parent.height - geometry.window.height = frame.h

C19_Witness ==
    /\ FrameAsAssumed /\ RequestsFit
    /\ frame.w = 3 /\ frame.h = 2
    /\ Len(handled) = 3
    /\ handled[2].calls # <<>>
    /\ handled[2].calls[1].fn = "cornermove"
    /\ handled[2].calls[1].arg = <<"down", "right">>
    /\ handled[3].windowstate = <<"down", "right">>
    /\ handled[3].event = "up"
    /\ get_windowstate(geometry, monitors) = <<"right">>
    /\ geometry.window.width = geometry.parent.width - 3

\* the command of entry e tiled the window to the half of its direction
MovesToHalf(e) ==
    /\ Len(e.calls) = 1
    /\ e.calls[1].fn = "move"
    /\ e.calls[1].arg = <<e.event>>
    /\ e.calls[1].target = HalfRect(e.screen, e.event)

\* the command of entry i maximised the window and the request was carried out
Maximised(i) ==
    /\ FrameAsAssumed
    /\ handled[i].outcome = "ok"
    /\ handled[i].calls # <<>>
    /\ handled[i].calls[1].fn = "maximise"
    /\ handled[i].calls[1].request.w >= 1
    /\ handled[i].calls[1].request.h >= 1

\* C20: a window that fills the screen, as the mirror transition leaves it,
\* is classified None on every screen of width and height at least 1, and
\* the next command d, the direction that maximised it included, tiles it to
\* Half(d): never to a quarter, never to the full screen again.
C20_FullScreenIsUntiled ==
    /\ [][(/\ handled' # handled
           /\ Last(handled').outcome = "ok"
           /\ Last(handled').screen.w >= 1 /\ Last(handled').screen.h >= 1
           /\ AsRect(geometry.parent) = Last(handled').screen) =>
              (/\ Last(handled').windowstate = <<>>
               /\ MovesToHalf(Last(handled')))]_vars
    /\ [](\A i \in DOMAIN handled :
            Maximised(i) =>
                /\ StateAfter(i) = <<>>
                /\ i + 1 \in DOMAIN handled => MovesToHalf(handled[i + 1]))

C20_Witness ==
    /\ Len(handled) >= 2
    /\ Maximised(1)
    /\ handled[1].windowstate = <<"left">>
    /\ handled[1].event = "right"
    /\ handled[1].screen = [x |-> 1, y |-> 2, w |-> 3, h |-> 1]
    /\ handled[2].windowstate = <<>>
    /\ handled[2].event = "right"
    /\ handled[2].calls[1].target = [x |-> 2, y |-> 2, w |-> 1, h |-> 1]

====
